---- MODULE Spec2Model ----
(***************************************************************************)
(* State-machine model of MatchingCore                                     *)
(* (nautilus_trader/execution/matching_core.pyx).                          *)
(*                                                                         *)
(* The core keeps three price slots with their initialized flags, the      *)
(* index `orders` and the two side lists.  Order objects live outside the  *)
(* core; the core holds references to them and writes liquidity_side and   *)
(* the triggered price.  The three injected callbacks are arbitrary code:  *)
(* each invocation picks one effect from CallbackEffects, which covers     *)
(* mutating an order, calling back into the core and raising.              *)
(*                                                                         *)
(* An order object is identified with its client_order_id: the index of    *)
(* the order in the variable `order`.                                      *)
(***************************************************************************)
EXTENDS Integers, Sequences, FiniteSets, TLC

(* ---------------------------------------------------------------- bounds *)

\* Raw prices set by set_bid_raw / set_ask_raw / set_last_raw range over
\* 0..MaxPrice.
MaxPrice == 1

\* add_order is not called on a side list that already holds MaxLen
\* entries (the lists are unbounded in the code).
MaxLen == 2

(* ----------------------------------------------------------------- enums *)

BUY == "BUY"
SELL == "SELL"
NO_ORDER_SIDE == "NO_ORDER_SIDE"

MAKER == "MAKER"
TAKER == "TAKER"
NO_LIQUIDITY_SIDE == "NO_LIQUIDITY_SIDE"

MARKET == "MARKET"
LIMIT == "LIMIT"
MARKET_TO_LIMIT == "MARKET_TO_LIMIT"
STOP_MARKET == "STOP_MARKET"
STOP_LIMIT == "STOP_LIMIT"
MARKET_IF_TOUCHED == "MARKET_IF_TOUCHED"
LIMIT_IF_TOUCHED == "LIMIT_IF_TOUCHED"
TRAILING_STOP_MARKET == "TRAILING_STOP_MARKET"
TRAILING_STOP_LIMIT == "TRAILING_STOP_LIMIT"

\* The order types order_sort_key and match_order have a branch for.
SortableTypes ==
    { LIMIT, MARKET_TO_LIMIT, STOP_MARKET, STOP_LIMIT, MARKET_IF_TOUCHED,
      LIMIT_IF_TOUCHED, TRAILING_STOP_MARKET, TRAILING_STOP_LIMIT }

Prices == 0..MaxPrice

\* Exceptions an operation can end with.
NoError == "none"
RuntimeError == "RuntimeError"
TypeError == "TypeError"
ValueError == "ValueError"
CallbackError == "CallbackError"

(* ------------------------------------------------------------- variables *)

VARIABLES
    bid_raw, ask_raw, last_raw,
    is_bid_initialized, is_ask_initialized, is_last_initialized,
    orders,        \* keys of the dict _orders
    orders_bid,    \* the list _orders_bid
    orders_ask,    \* the list _orders_ask
    order,         \* the order objects: id -> fields
    pc,            \* "idle", or "iterate" while a sweep is in flight
    snapshot,      \* the list iterate loops over
    idx,           \* position of the loop in snapshot
    cbAdded,       \* orders a callback has passed to add_order in that sweep
    op             \* the last operation: its exception and its callbacks

coreVars ==
    << bid_raw, ask_raw, last_raw, is_bid_initialized, is_ask_initialized,
       is_last_initialized, orders, orders_bid, orders_ask >>

vars ==
    << bid_raw, ask_raw, last_raw, is_bid_initialized, is_ask_initialized,
       is_last_initialized, orders, orders_bid, orders_ask, order, pc,
       snapshot, idx, cbAdded, op >>

OrderIds == DOMAIN order

(* ------------------------------------------------------ sequence helpers *)

RECURSIVE IndexOf(_, _, _)
\* Position of the first occurrence of x in s at or after i, 0 if none.
IndexOf(s, x, i) ==
    IF i > Len(s) THEN 0
    ELSE IF s[i] = x THEN i
    ELSE IndexOf(s, x, i + 1)

\* list.remove(x): drops the first occurrence.
RemoveFirst(s, x) ==
    LET i == IndexOf(s, x, 1)
    IN  IF i = 0 THEN s
        ELSE SubSeq(s, 1, i - 1) \o SubSeq(s, i + 1, Len(s))

Occurrences(s, x) == Cardinality({ i \in DOMAIN s : s[i] = x })

Range(s) == { s[i] : i \in DOMAIN s }

(* -------------------------------------------------------------- the world *)

\* The core's fields and the order objects, as one value the operations
\* below transform.  `raised` is the exception the operation in progress
\* has ended with and `calls` the callbacks it has invoked so far.
World ==
    [ bid_raw |-> bid_raw, ask_raw |-> ask_raw, last_raw |-> last_raw,
      is_bid_initialized |-> is_bid_initialized,
      is_ask_initialized |-> is_ask_initialized,
      is_last_initialized |-> is_last_initialized,
      orders |-> orders, orders_bid |-> orders_bid, orders_ask |-> orders_ask,
      order |-> order, cbAdded |-> cbAdded,
      raised |-> NoError, calls |-> <<>>, reentered |-> FALSE ]

\* Variant of raise: the failure undoes the liquidity sides the orders
\* were given.
RaiseUndoesLiquiditySide(w, e) ==
    [w EXCEPT !.raised = e,
              !.order = [ i \in DOMAIN @ |->
                            [@[i] EXCEPT !.liquidity_side = NO_LIQUIDITY_SIDE] ]]

Raise(w, e) == [w EXCEPT !.raised = e]

(* ------------------------------------------------------------- sort key *)

\* order_sort_key: <<key>>, or <<>> when the function raises RuntimeError.
order_sort_key(o) ==
    IF o.order_type = LIMIT THEN << o.price >>
    ELSE IF o.order_type = MARKET_TO_LIMIT THEN << o.price >>
    ELSE IF o.order_type = STOP_MARKET THEN << o.trigger_price >>
    ELSE IF o.order_type = STOP_LIMIT
        THEN << IF o.is_triggered THEN o.price ELSE o.trigger_price >>
    ELSE IF o.order_type = MARKET_IF_TOUCHED THEN << o.trigger_price >>
    ELSE IF o.order_type = LIMIT_IF_TOUCHED
        THEN << IF o.is_triggered THEN o.price ELSE o.trigger_price >>
    ELSE IF o.order_type = TRAILING_STOP_MARKET THEN << o.trigger_price >>
    ELSE IF o.order_type = TRAILING_STOP_LIMIT
        THEN << IF o.is_triggered THEN o.price ELSE o.trigger_price >>
    ELSE << >>

\* Whether a comes strictly before b in the sort direction.
Before(ka, kb, reverse) == IF reverse THEN ka > kb ELSE ka < kb

RECURSIVE InsertStable(_, _, _, _, _)
\* x put into the sorted list s, behind every entry it does not come
\* strictly before: equal keys keep their order of arrival.
InsertStable(s, x, om, reverse, i) ==
    IF i > Len(s) THEN Append(s, x)
    ELSE IF Before(order_sort_key(om[x])[1], order_sort_key(om[s[i]])[1], reverse)
        THEN SubSeq(s, 1, i - 1) \o << x >> \o SubSeq(s, i, Len(s))
    ELSE InsertStable(s, x, om, reverse, i + 1)

RECURSIVE SortStable(_, _, _, _, _)
\* list.sort(key=order_sort_key, reverse=reverse) on keys that all exist:
\* a stable sort, s[1..i-1] already placed in acc.
SortStable(s, om, reverse, i, acc) ==
    IF i > Len(s) THEN acc
    ELSE SortStable(s, om, reverse, i + 1,
                    InsertStable(acc, s[i], om, reverse, 1))

\* The key function raises on some entry: list.sort computes every key
\* before it moves anything, so the list keeps its order.
SortRaises(s, om) == \E i \in DOMAIN s : order_sort_key(om[s[i]]) = << >>

_sort_bid_orders(w) ==
    IF SortRaises(w.orders_bid, w.order) THEN Raise(w, RuntimeError)
    ELSE [w EXCEPT !.orders_bid = SortStable(@, w.order, TRUE, 1, << >>)]

_sort_ask_orders(w) ==
    IF SortRaises(w.orders_ask, w.order) THEN Raise(w, RuntimeError)
    ELSE [w EXCEPT !.orders_ask = SortStable(@, w.order, FALSE, 1, << >>)]

(* ------------------------------------------------------------- commands *)

set_bid_raw(w, v) == [w EXCEPT !.is_bid_initialized = TRUE, !.bid_raw = v]

set_ask_raw(w, v) == [w EXCEPT !.is_ask_initialized = TRUE, !.ask_raw = v]

set_last_raw(w, v) == [w EXCEPT !.is_last_initialized = TRUE, !.last_raw = v]

\* Variant of reset: the ask flag is left as it was.
resetKeepsAskFlag(w) ==
    [w EXCEPT !.orders = {}, !.orders_bid = << >>, !.orders_ask = << >>,
              !.bid_raw = 0, !.ask_raw = 0, !.last_raw = 0,
              !.is_bid_initialized = FALSE, !.is_last_initialized = FALSE]

reset(w) ==
    [w EXCEPT !.orders = {}, !.orders_bid = << >>, !.orders_ask = << >>,
              !.bid_raw = 0, !.ask_raw = 0, !.last_raw = 0,
              !.is_bid_initialized = FALSE, !.is_ask_initialized = FALSE,
              !.is_last_initialized = FALSE]

\* _add_order: the order is indexed before its side is looked at, and
\* appended before the list is sorted.
add_order(w, x) ==
    LET w1 == [w EXCEPT !.orders = @ \cup {x}]
    IN  IF w.order[x].side = BUY
            THEN _sort_bid_orders([w1 EXCEPT !.orders_bid = Append(@, x)])
        ELSE IF w.order[x].side = SELL
            THEN _sort_ask_orders([w1 EXCEPT !.orders_ask = Append(@, x)])
        ELSE Raise(w1, RuntimeError)

\* delete_order: dict.pop(key, None), then list.remove if the order is in
\* the list of its side.
delete_order(w, x) ==
    LET w1 == [w EXCEPT !.orders = @ \ {x}]
    IN  IF w.order[x].side = BUY
            THEN [w1 EXCEPT !.orders_bid = RemoveFirst(@, x)]
        ELSE IF w.order[x].side = SELL
            THEN [w1 EXCEPT !.orders_ask = RemoveFirst(@, x)]
        ELSE Raise(w1, RuntimeError)

(* ------------------------------------------------------------ predicates *)

\* The three predicates on a side that is BUY or SELL; on any other side
\* they raise ValueError, which the matchers below test for first.
\* Variant of is_limit_matched: the raw prices are compared whether or not
\* they have been set.
is_limit_matched_raw_only(w, side, price) ==
    IF side = BUY THEN w.ask_raw <= price ELSE w.bid_raw >= price

\* Variant of is_limit_matched: a last price, once set, stands in for the
\* ask of a BUY test.
is_limit_matched_on_last(w, side, price) ==
    IF side = BUY
        THEN IF ~w.is_ask_initialized THEN FALSE
             ELSE (IF w.is_last_initialized THEN w.last_raw ELSE w.ask_raw)
                      <= price
        ELSE IF ~w.is_bid_initialized THEN FALSE ELSE w.bid_raw >= price

is_limit_matched(w, side, price) ==
    IF side = BUY
        THEN IF ~w.is_ask_initialized THEN FALSE ELSE w.ask_raw <= price
        ELSE IF ~w.is_bid_initialized THEN FALSE ELSE w.bid_raw >= price

is_stop_triggered(w, side, trigger_price) ==
    IF side = BUY
        THEN IF ~w.is_ask_initialized THEN FALSE ELSE w.ask_raw >= trigger_price
        ELSE IF ~w.is_bid_initialized THEN FALSE ELSE w.bid_raw <= trigger_price

\* Variant of is_touch_triggered: the comparisons are strict.
is_touch_triggered_strict(w, side, trigger_price) ==
    IF side = BUY
        THEN IF ~w.is_ask_initialized THEN FALSE ELSE w.ask_raw < trigger_price
        ELSE IF ~w.is_bid_initialized THEN FALSE ELSE w.bid_raw > trigger_price

is_touch_triggered(w, side, trigger_price) ==
    IF side = BUY
        THEN IF ~w.is_ask_initialized THEN FALSE ELSE w.ask_raw <= trigger_price
        ELSE IF ~w.is_bid_initialized THEN FALSE ELSE w.bid_raw >= trigger_price

PredicateRaises(side) == side # BUY /\ side # SELL

\* Variant of _determine_order_liquidity: a trigger price equal to the
\* price counts as passive too.
_determine_order_liquidity_or_equal(initial, side, price, trigger_price) ==
    IF initial THEN TAKER
    ELSE IF side = BUY /\ trigger_price >= price THEN MAKER
    ELSE IF side = SELL /\ trigger_price <= price THEN MAKER
    ELSE TAKER

_determine_order_liquidity(initial, side, price, trigger_price) ==
    IF initial THEN TAKER
    ELSE IF side = BUY /\ trigger_price > price THEN MAKER
    ELSE IF side = SELL /\ trigger_price < price THEN MAKER
    ELSE TAKER

(* ------------------------------------------------------------- callbacks *)

\* What one invocation of an injected callback may do.  trigger_stop_order
\* is the callback that sets is_triggered on the order it is given; every
\* callback may close an order, call add_order, delete_order, reset or a
\* price setter on the core, or raise.
CallbackEffects(w, cb, x) ==
    { [kind |-> k, arg |-> 0] : k \in { "return", "raise", "reset" } }
    \cup { [kind |-> "trigger", arg |-> x] : y \in
              IF cb = "trigger_stop_order" THEN {x} ELSE {} }
    \cup { [kind |-> "close", arg |-> y] : y \in DOMAIN w.order }
    \cup { [kind |-> "add_order", arg |-> y] : y \in
              { z \in DOMAIN w.order :
                  /\ w.order[z].side = BUY => Len(w.orders_bid) < MaxLen
                  /\ w.order[z].side = SELL => Len(w.orders_ask) < MaxLen } }
    \cup { [kind |-> "delete_order", arg |-> y] : y \in DOMAIN w.order }
    \cup { [kind |-> k, arg |-> v] :
              k \in { "set_bid_raw", "set_ask_raw" }, v \in Prices }

\* The callback's effect on the world; an exception of the core operation
\* it calls leaves the callback.
\* `reentered` records that the callback called an operation of the core.
Effect(w, e) ==
    IF e.kind = "raise" THEN Raise(w, CallbackError)
    ELSE IF e.kind = "trigger"
        THEN [w EXCEPT !.order[e.arg].is_triggered = TRUE]
    ELSE IF e.kind = "close"
        THEN [w EXCEPT !.order[e.arg].is_closed = TRUE]
    ELSE IF e.kind = "add_order"
        THEN [add_order(w, e.arg) EXCEPT !.cbAdded = @ \cup {e.arg},
                                         !.reentered = TRUE]
    ELSE IF e.kind = "delete_order"
        THEN [delete_order(w, e.arg) EXCEPT !.reentered = TRUE]
    ELSE IF e.kind = "reset" THEN [reset(w) EXCEPT !.reentered = TRUE]
    ELSE IF e.kind = "set_bid_raw"
        THEN [set_bid_raw(w, e.arg) EXCEPT !.reentered = TRUE]
    ELSE IF e.kind = "set_ask_raw"
        THEN [set_ask_raw(w, e.arg) EXCEPT !.reentered = TRUE]
    ELSE w

\* self._<cb>(order): the worlds the call can return (or raise) in.  The
\* call is logged with the liquidity side the order carries at that time.
Invoke(w, cb, x) ==
    LET w1 == [w EXCEPT !.calls = Append(@,
                   [cb |-> cb, id |-> x,
                    liquidity_side |-> w.order[x].liquidity_side])]
    IN  { Effect(w1, e) : e \in CallbackEffects(w1, cb, x) }

(* -------------------------------------------------------------- matching *)

set_triggered_price_c(w, x, p) == [w EXCEPT !.order[x].triggered_price = << p >>]

SetLiquiditySide(w, x, l) == [w EXCEPT !.order[x].liquidity_side = l]

\* Variant of match_limit_order: the core drops the order it fills.
match_limit_order_drops_filled(w, x) ==
    LET o == w.order[x]
    IN  IF PredicateRaises(o.side) THEN { Raise(w, ValueError) }
        ELSE IF is_limit_matched(w, o.side, o.price)
            THEN Invoke(delete_order(SetLiquiditySide(w, x, MAKER), x),
                        "fill_limit_order", x)
        ELSE { w }

match_limit_order(w, x) ==
    LET o == w.order[x]
    IN  IF PredicateRaises(o.side) THEN { Raise(w, ValueError) }
        ELSE IF is_limit_matched(w, o.side, o.price)
            THEN Invoke(SetLiquiditySide(w, x, MAKER), "fill_limit_order", x)
        ELSE { w }

\* Variant of match_stop_market_order: the stop is announced through
\* trigger_stop_order before the market fill.
match_stop_market_order_announced(w, x) ==
    LET o == w.order[x]
    IN  IF PredicateRaises(o.side) THEN { Raise(w, ValueError) }
        ELSE IF is_stop_triggered(w, o.side, o.trigger_price)
            THEN UNION { IF w3.raised # NoError THEN { w3 }
                         ELSE Invoke(w3, "fill_market_order", x) :
                         w3 \in Invoke(set_triggered_price_c(w, x, o.trigger_price),
                                       "trigger_stop_order", x) }
        ELSE { w }

match_stop_market_order(w, x) ==
    LET o == w.order[x]
    IN  IF PredicateRaises(o.side) THEN { Raise(w, ValueError) }
        ELSE IF is_stop_triggered(w, o.side, o.trigger_price)
            THEN Invoke(set_triggered_price_c(w, x, o.trigger_price),
                        "fill_market_order", x)
        ELSE { w }

\* Variant of the tail: the fill keeps the liquidity side the rule gave.
FillKeepsLiquiditySide(w, x) ==
    LET o == w.order[x]
    IN  IF w.raised # NoError THEN { w }
        ELSE IF is_limit_matched(w, o.side, o.price)
            THEN Invoke(w, "fill_limit_order", x)
        ELSE { w }

\* The tail of the two conditional-limit matchers, after the trigger
\* callback: the limit is tested against the world the callback left.
FillIfMarketable(w, x) ==
    LET o == w.order[x]
    IN  IF w.raised # NoError THEN { w }
        ELSE IF is_limit_matched(w, o.side, o.price)
            THEN Invoke(SetLiquiditySide(w, x, TAKER), "fill_limit_order", x)
        ELSE { w }

\* Variant of match_stop_limit_order: the trigger is tested as a touch.
match_stop_limit_order_on_touch(w, x, initial) ==
    LET o == w.order[x]
    IN  IF PredicateRaises(o.side) THEN { Raise(w, ValueError) }
        ELSE IF o.is_triggered
            THEN IF is_limit_matched(w, o.side, o.price)
                    THEN Invoke(SetLiquiditySide(w, x, MAKER), "fill_limit_order", x)
                 ELSE { w }
        ELSE IF is_touch_triggered(w, o.side, o.trigger_price)
            THEN LET w1 == set_triggered_price_c(w, x, o.trigger_price)
                     w2 == SetLiquiditySide(w1, x,
                               _determine_order_liquidity(initial, o.side,
                                   o.price, o.trigger_price))
                 IN  UNION { FillIfMarketable(w3, x) :
                                w3 \in Invoke(w2, "trigger_stop_order", x) }
        ELSE { w }

\* Variant of match_stop_limit_order: is_triggered is not looked at.
match_stop_limit_order_retrigger(w, x, initial) ==
    LET o == w.order[x]
    IN  IF PredicateRaises(o.side) THEN { Raise(w, ValueError) }
        ELSE IF is_stop_triggered(w, o.side, o.trigger_price)
            THEN LET w1 == set_triggered_price_c(w, x, o.trigger_price)
                     w2 == SetLiquiditySide(w1, x,
                               _determine_order_liquidity(initial, o.side,
                                   o.price, o.trigger_price))
                 IN  UNION { FillIfMarketable(w3, x) :
                                w3 \in Invoke(w2, "trigger_stop_order", x) }
        ELSE { w }

match_stop_limit_order(w, x, initial) ==
    LET o == w.order[x]
    IN  IF PredicateRaises(o.side) THEN { Raise(w, ValueError) }
        ELSE IF o.is_triggered
            THEN IF is_limit_matched(w, o.side, o.price)
                    THEN Invoke(SetLiquiditySide(w, x, MAKER), "fill_limit_order", x)
                 ELSE { w }
        ELSE IF is_stop_triggered(w, o.side, o.trigger_price)
            THEN LET w1 == set_triggered_price_c(w, x, o.trigger_price)
                     w2 == SetLiquiditySide(w1, x,
                               _determine_order_liquidity(initial, o.side,
                                   o.price, o.trigger_price))
                 IN  UNION { FillIfMarketable(w3, x) :
                                w3 \in Invoke(w2, "trigger_stop_order", x) }
        ELSE { w }

\* Variant of match_market_if_touched_order: the order is tested as a
\* stop.
match_market_if_touched_order_as_stop(w, x) ==
    LET o == w.order[x]
    IN  IF PredicateRaises(o.side) THEN { Raise(w, ValueError) }
        ELSE IF is_stop_triggered(w, o.side, o.trigger_price)
            THEN Invoke(set_triggered_price_c(w, x, o.trigger_price),
                        "fill_market_order", x)
        ELSE { w }

match_market_if_touched_order(w, x) ==
    LET o == w.order[x]
    IN  IF PredicateRaises(o.side) THEN { Raise(w, ValueError) }
        ELSE IF is_touch_triggered(w, o.side, o.trigger_price)
            THEN Invoke(set_triggered_price_c(w, x, o.trigger_price),
                        "fill_market_order", x)
        ELSE { w }

\* Variant of match_limit_if_touched_order: the triggered price is set for
\* both values of initial.
match_limit_if_touched_order_always_set(w, x, initial) ==
    LET o == w.order[x]
    IN  IF PredicateRaises(o.side) THEN { Raise(w, ValueError) }
        ELSE IF o.is_triggered
            THEN IF is_limit_matched(w, o.side, o.price)
                    THEN Invoke(SetLiquiditySide(w, x, MAKER), "fill_limit_order", x)
                 ELSE { w }
        ELSE IF is_touch_triggered(w, o.side, o.trigger_price)
            THEN LET w1 == set_triggered_price_c(w, x, o.trigger_price)
                     w2 == SetLiquiditySide(w1, x,
                               _determine_order_liquidity(initial, o.side,
                                   o.price, o.trigger_price))
                 IN  UNION { FillIfMarketable(w3, x) :
                                w3 \in Invoke(w2, "trigger_stop_order", x) }
        ELSE { w }

match_limit_if_touched_order(w, x, initial) ==
    LET o == w.order[x]
    IN  IF PredicateRaises(o.side) THEN { Raise(w, ValueError) }
        ELSE IF o.is_triggered
            THEN IF is_limit_matched(w, o.side, o.price)
                    THEN Invoke(SetLiquiditySide(w, x, MAKER), "fill_limit_order", x)
                 ELSE { w }
        ELSE IF is_touch_triggered(w, o.side, o.trigger_price)
            THEN LET w1 == IF ~initial
                               THEN set_triggered_price_c(w, x, o.trigger_price)
                               ELSE w
                     w2 == SetLiquiditySide(w1, x,
                               _determine_order_liquidity(initial, o.side,
                                   o.price, o.trigger_price))
                 IN  UNION { FillIfMarketable(w3, x) :
                                w3 \in Invoke(w2, "trigger_stop_order", x) }
        ELSE { w }

\* match_order: the worlds the call can end in.
match_order(w, x, initial) ==
    LET t == w.order[x].order_type
    IN  IF t = LIMIT \/ t = MARKET_TO_LIMIT THEN match_limit_order(w, x)
        ELSE IF t = STOP_LIMIT \/ t = TRAILING_STOP_LIMIT
            THEN match_stop_limit_order(w, x, initial)
        ELSE IF t = STOP_MARKET \/ t = TRAILING_STOP_MARKET
            THEN match_stop_market_order(w, x)
        ELSE IF t = LIMIT_IF_TOUCHED
            THEN match_limit_if_touched_order(w, x, initial)
        ELSE IF t = MARKET_IF_TOUCHED
            THEN match_market_if_touched_order(w, x)
        ELSE { Raise(w, TypeError) }

(* ---------------------------------------------------------------- orders *)

\* A new order as its owner hands it to the core.  price is 0 for the
\* types that carry none, trigger_price likewise; triggered_price is <<>>
\* until set_triggered_price_c stores one.
NewOrder(side, order_type, price, trigger_price) ==
    [ side |-> side, order_type |-> order_type, price |-> price,
      trigger_price |-> trigger_price, is_triggered |-> FALSE,
      is_closed |-> FALSE, liquidity_side |-> NO_LIQUIDITY_SIDE,
      triggered_price |-> << >> ]

\* The orders of the runs with one order: every order type the core
\* matches on both sides, with the limit price at, below and above the
\* trigger price, an order of a type the core has no branch for and an
\* order whose side is neither BUY nor SELL.
Catalogue ==
    { NewOrder(BUY, LIMIT, 0, 0),
      NewOrder(SELL, LIMIT, 1, 0),
      NewOrder(SELL, MARKET_TO_LIMIT, 0, 0),
      NewOrder(BUY, STOP_MARKET, 0, 1),
      NewOrder(SELL, TRAILING_STOP_MARKET, 0, 0),
      NewOrder(BUY, MARKET_IF_TOUCHED, 0, 0),
      NewOrder(SELL, MARKET_IF_TOUCHED, 0, 1),
      NewOrder(BUY, STOP_LIMIT, 1, 0),
      NewOrder(BUY, STOP_LIMIT, 0, 1),
      NewOrder(SELL, STOP_LIMIT, 1, 1),
      NewOrder(SELL, TRAILING_STOP_LIMIT, 1, 0),
      NewOrder(BUY, LIMIT_IF_TOUCHED, 0, 1),
      NewOrder(SELL, LIMIT_IF_TOUCHED, 1, 0),
      NewOrder(BUY, MARKET, 0, 0),
      NewOrder(NO_ORDER_SIDE, LIMIT, 0, 0) }

Pools == { << o >> : o \in Catalogue }

\* The orders of the runs with two orders: two on the bid side, one of
\* them a conditional limit order, and one on either side.
PairPools ==
    { << NewOrder(BUY, LIMIT, 0, 0), NewOrder(BUY, STOP_LIMIT, 1, 0) >>,
      << NewOrder(BUY, LIMIT, 1, 0), NewOrder(SELL, LIMIT, 0, 0) >> }

(* --------------------------------------------------------------- actions *)

\* The variables take the values the operation left in w.
Commit(w, arg, initial) ==
    /\ bid_raw' = w.bid_raw
    /\ ask_raw' = w.ask_raw
    /\ last_raw' = w.last_raw
    /\ is_bid_initialized' = w.is_bid_initialized
    /\ is_ask_initialized' = w.is_ask_initialized
    /\ is_last_initialized' = w.is_last_initialized
    /\ orders' = w.orders
    /\ orders_bid' = w.orders_bid
    /\ orders_ask' = w.orders_ask
    /\ order' = w.order
    /\ op' = [ arg |-> arg, initial |-> initial, raised |-> w.raised,
               calls |-> w.calls ]

Idle == pc = "idle"

StayIdle == UNCHANGED << pc, snapshot, idx, cbAdded >>

InitCore ==
    /\ bid_raw = 0
    /\ ask_raw = 0
    /\ last_raw = 0
    /\ is_bid_initialized = FALSE
    /\ is_ask_initialized = FALSE
    /\ is_last_initialized = FALSE
    /\ orders = {}
    /\ orders_bid = << >>
    /\ orders_ask = << >>
    /\ pc = "idle"
    /\ snapshot = << >>
    /\ idx = 0
    /\ cbAdded = {}
    /\ op = [ arg |-> 0, initial |-> FALSE, raised |-> NoError,
              calls |-> << >> ]

Init == InitCore /\ order \in Pools

InitPairs == InitCore /\ order \in PairPools

SetBidRaw ==
    /\ Idle
    /\ \E v \in Prices : Commit(set_bid_raw(World, v), 0, FALSE)
    /\ StayIdle

SetAskRaw ==
    /\ Idle
    /\ \E v \in Prices : Commit(set_ask_raw(World, v), 0, FALSE)
    /\ StayIdle

SetLastRaw ==
    /\ Idle
    /\ \E v \in Prices : Commit(set_last_raw(World, v), 0, FALSE)
    /\ StayIdle

Reset ==
    /\ Idle
    /\ Commit(reset(World), 0, FALSE)
    /\ StayIdle

\* add_order called by the owner of the core, on a side list shorter
\* than n.
AddOrderUpTo(n) ==
    /\ Idle
    /\ \E x \in OrderIds :
          /\ order[x].side = BUY => Len(orders_bid) < n
          /\ order[x].side = SELL => Len(orders_ask) < n
          /\ Commit(add_order(World, x), 0, FALSE)
    /\ StayIdle

AddOrder == AddOrderUpTo(MaxLen)

DeleteOrder ==
    /\ Idle
    /\ \E x \in OrderIds : Commit(delete_order(World, x), 0, FALSE)
    /\ StayIdle

\* match_order called by the owner of the core, on any order.
MatchOrder ==
    /\ Idle
    /\ \E x \in OrderIds, initial \in BOOLEAN :
          \E w \in match_order(World, x, initial) :
              Commit(w, x, initial)
    /\ StayIdle

\* iterate, entry: the two lists are concatenated into a new list.
IterateBegin ==
    /\ Idle
    /\ pc' = "iterate"
    /\ snapshot' = orders_bid \o orders_ask
    /\ idx' = 1
    /\ cbAdded' = {}
    /\ Commit(World, 0, FALSE)

\* Variant of the loop: it runs over the live lists instead of the copy.
SweepOrderLive ==
    LET live == orders_bid \o orders_ask
    IN  IF idx <= Len(live) THEN live[idx] ELSE snapshot[idx]

\* The order the loop of iterate is at: an entry of the copy.
SweepOrder == snapshot[idx]

\* Variant of the skip: an order that is no longer indexed is passed over
\* too.
SweepSkipsUnindexed(x) == order[x].is_closed \/ x \notin orders

\* `if order.is_closed_c(): continue`
SweepSkips(x) == order[x].is_closed

\* iterate, one pass of the loop body.  A callback that raises ends the
\* sweep.
IterateStep ==
    /\ pc = "iterate"
    /\ idx <= Len(snapshot)
    /\ LET x == SweepOrder
       IN  IF SweepSkips(x)
               THEN /\ Commit(World, 0, FALSE)
                    /\ idx' = idx + 1
                    /\ UNCHANGED << pc, snapshot, cbAdded >>
               ELSE \E w \in match_order(World, x, FALSE) :
                      /\ Commit(w, x, FALSE)
                      /\ IF w.raised = NoError
                            THEN /\ idx' = idx + 1
                                 /\ cbAdded' = w.cbAdded
                                 /\ UNCHANGED << pc, snapshot >>
                            ELSE /\ pc' = "idle"
                                 /\ snapshot' = << >>
                                 /\ idx' = 0
                                 /\ cbAdded' = {}

\* Variant of the end of the loop: its bound is read from the live lists.
IterateEndOnLiveLists ==
    /\ pc = "iterate"
    /\ idx > Len(orders_bid \o orders_ask)
    /\ pc' = "idle"
    /\ snapshot' = << >>
    /\ idx' = 0
    /\ cbAdded' = {}
    /\ Commit(World, 0, FALSE)

\* iterate, the loop has run off the end of the snapshot.
IterateEnd ==
    /\ pc = "iterate"
    /\ idx > Len(snapshot)
    /\ pc' = "idle"
    /\ snapshot' = << >>
    /\ idx' = 0
    /\ cbAdded' = {}
    /\ Commit(World, 0, FALSE)

Next ==
    \/ SetBidRaw
    \/ SetAskRaw
    \/ SetLastRaw
    \/ Reset
    \/ AddOrder
    \/ DeleteOrder
    \/ MatchOrder
    \/ IterateBegin
    \/ IterateStep
    \/ IterateEnd

Spec == Init /\ [][Next]_vars

\* The runs with two orders leave the last price alone: no operation but
\* set_last_raw, reset and the `last` property touches it.
NextPairs ==
    \/ SetBidRaw
    \/ SetAskRaw
    \/ Reset
    \/ AddOrder
    \/ DeleteOrder
    \/ MatchOrder
    \/ IterateBegin
    \/ IterateStep
    \/ IterateEnd

SpecPairs == InitPairs /\ [][NextPairs]_vars

\* The runs of add_order and delete_order alone, over three orders of one
\* side, one of a type order_sort_key raises on.
TriplePools ==
    { << NewOrder(BUY, LIMIT, 0, 0), NewOrder(BUY, MARKET, 0, 0),
         NewOrder(BUY, LIMIT, 1, 0) >>,
      << NewOrder(SELL, LIMIT, 1, 0), NewOrder(SELL, STOP_MARKET, 0, 0),
         NewOrder(SELL, LIMIT_IF_TOUCHED, 0, 1) >> }

InitAddDelete == InitCore /\ order \in TriplePools

NextAddDelete ==
    \/ AddOrderUpTo(MaxLen + 1)
    \/ DeleteOrder

SpecAddDelete == InitAddDelete /\ [][NextAddDelete]_vars

\* The runs of sweeps over two orders: the owner sets the ask, adds orders
\* and calls iterate; whatever else happens to the core happens in
\* callbacks.
NextSweeps ==
    \/ SetAskRaw
    \/ AddOrder
    \/ IterateBegin
    \/ IterateStep
    \/ IterateEnd

SpecSweeps == InitPairs /\ [][NextSweeps]_vars

\* The runs of sweeps to completion, over one limit order that may be
\* added more than once: the owner sets the bid and the ask, adds the
\* order and calls iterate.
SweepPools ==
    { << NewOrder(BUY, LIMIT, 1, 0) >>,
      << NewOrder(SELL, MARKET_TO_LIMIT, 0, 0) >> }

InitSweepsFair == InitCore /\ order \in SweepPools

NextSweepsFair ==
    \/ SetBidRaw
    \/ SetAskRaw
    \/ AddOrder
    \/ IterateBegin
    \/ IterateStep
    \/ IterateEnd

\* iterate is a plain for loop over a list: once it is entered, each pass
\* and the return happen.
SpecSweepsFair ==
    /\ InitSweepsFair
    /\ [][NextSweepsFair]_vars
    /\ WF_vars(IterateStep)
    /\ WF_vars(IterateEnd)

\* The runs of direct calls only: prices are set, orders added and
\* deleted, the core reset and match_order called, with no sweep.
NextCalls ==
    \/ SetBidRaw
    \/ SetAskRaw
    \/ Reset
    \/ AddOrder
    \/ DeleteOrder
    \/ MatchOrder

SpecCalls == Init /\ [][NextCalls]_vars

\* The runs of direct calls with the last price set as well.
NextLast ==
    \/ NextCalls
    \/ SetLastRaw

SpecLast == Init /\ [][NextLast]_vars

(* ------------------------------------------------------------ properties *)

\* Arguments the predicates are tried on: below, inside and above the
\* prices the market takes.
PriceArgs == (0 - 1)..(MaxPrice + 1)

SideLists == orders_bid \o orders_ask

\* The entries of s that have a sort key are in the order of the sort.
InKeyOrder(s, reverse) ==
    \A i, j \in DOMAIN s :
        (/\ i < j
         /\ order_sort_key(order[s[i]]) # << >>
         /\ order_sort_key(order[s[j]]) # << >>)
        => ~Before(order_sort_key(order[s[j]])[1],
                   order_sort_key(order[s[i]])[1], reverse)

\* The step is a pass of the loop of iterate that calls match_order on x.
SweepMatches(x) == pc = "iterate" /\ op'.arg = x

CallbackNames(calls) == [ i \in DOMAIN calls |-> calls[i].cb ]

\* C1: an order is in `orders` iff it occurs exactly once in the two side
\* lists together, in the list its side selects.  Stated of the orders
\* whose side is BUY or SELL.
C1_IndexMatchesLists ==
    \A x \in { y \in OrderIds : order[y].side \in { BUY, SELL } } :
        x \in orders <=>
            /\ Occurrences(orders_bid, x) + Occurrences(orders_ask, x) = 1
            /\ \/ order[x].side = BUY /\ Occurrences(orders_bid, x) = 1
               \/ order[x].side = SELL /\ Occurrences(orders_ask, x) = 1

\* C2: in every state outside the bodies of add_order and delete_order,
\* orders_bid is sorted descending and orders_ask ascending by
\* order_sort_key.
C2_SideListsSorted ==
    /\ InKeyOrder(orders_bid, TRUE)
    /\ InKeyOrder(orders_ask, FALSE)

\* A closed order the sweep comes to is passed over: no callback is
\* invoked and no field of any order changes in that pass.
ClosedIsSkipped ==
    (pc = "iterate" /\ idx <= Len(snapshot) /\ order[snapshot[idx]].is_closed)
    => (op'.arg = 0 /\ op'.calls = << >> /\ order' = order /\ idx' = idx + 1)

\* C3 as stated: the sweep never calls match_order on an order a callback
\* of that sweep has passed to add_order, and passes over closed orders.
C3_AddedNeverMatched ==
    [][ /\ \A x \in OrderIds : SweepMatches(x) => x \notin cbAdded
        /\ ClosedIsSkipped ]_vars

\* C3 as amended: the sweep never calls match_order on an order that was
\* not in the working set at entry and that a callback of that sweep has
\* passed to add_order, and passes over closed orders.
C3_NewOrderNeverMatched ==
    [][ /\ \A x \in OrderIds :
              SweepMatches(x) => x \notin (cbAdded \ Range(snapshot))
        /\ pc = "iterate" /\ pc' = "iterate" => snapshot' = snapshot
        /\ ClosedIsSkipped ]_vars

\* C3 witness: a sweep has run to its end, a callback of it has added an
\* open order that was not in the snapshot, and the order is in its list.
C3_Witness ==
    /\ pc = "iterate"
    /\ idx > Len(snapshot)
    /\ \E x \in cbAdded :
          /\ x \notin Range(snapshot)
          /\ x \in Range(SideLists)
          /\ ~order[x].is_closed

\* Every outcome of match_order on x in the present world invokes a
\* callback.
Activates(x) == \A w \in match_order(World, x, FALSE) : w.calls # << >>

\* C4: the sweep calls match_order on every order of the snapshot that is
\* not closed when the loop comes to it, whether or not it still is in
\* `orders`, and its callback is invoked when its predicate holds; only a
\* closed order is passed over.
C4_DeletedStillMatched ==
    [][ (pc = "iterate" /\ idx <= Len(snapshot)) =>
            IF order[snapshot[idx]].is_closed
                THEN op'.arg = 0
                ELSE /\ op'.arg = snapshot[idx]
                     /\ \/ /\ op'.calls # << >>
                           /\ op'.calls[1].id = snapshot[idx]
                        \/ ~Activates(snapshot[idx]) ]_vars

\* C4 witness: the second pass of a sweep has invoked one callback for a
\* LIMIT order that is in neither `orders` nor a side list; the callback
\* has closed the order, so the order left the core before the pass.
C4_Witness ==
    /\ pc = "iterate"
    /\ idx = 3
    /\ op.arg # 0
    /\ op.arg # snapshot[1]
    /\ order[op.arg].order_type = LIMIT
    /\ Len(op.calls) = 1
    /\ order[op.arg].is_closed
    /\ op.arg \notin orders
    /\ op.arg \notin Range(SideLists)

\* C5: an operation that ends with the error of an unknown side or an
\* unsupported order type has left the core's state as it was and has
\* invoked no callback.
C5_AbortLeavesStateUntouched ==
    [][ op'.raised \in { RuntimeError, TypeError, ValueError }
            => (UNCHANGED coreVars /\ op'.calls = << >>) ]_vars

\* C6: in every reachable state, for every order, delete_order twice
\* leaves `orders` and the side lists as delete_order once does.
C6_DeleteIdempotent ==
    \A x \in OrderIds :
        LET w1 == delete_order(World, x)
            w2 == delete_order(w1, x)
        IN  /\ w2.orders = w1.orders
            /\ w2.orders_bid = w1.orders_bid
            /\ w2.orders_ask = w1.orders_ask

\* C7: after add_order and delete_order calls alone, every order in
\* orders_bid has side BUY, every order in orders_ask has side SELL,
\* orders_bid is non-increasing and orders_ask non-decreasing in
\* order_sort_key.
C7_SidesAndKeyOrder ==
    /\ \A i \in DOMAIN orders_bid : order[orders_bid[i]].side = BUY
    /\ \A i \in DOMAIN orders_ask : order[orders_ask[i]].side = SELL
    /\ InKeyOrder(orders_bid, TRUE)
    /\ InKeyOrder(orders_ask, FALSE)

\* C8 as stated: one match_order call invokes at most one callback, at
\* most once.
C8_AtMostOneCallback == op.arg # 0 => Len(op.calls) <= 1

\* C8 as amended: one match_order call invokes callbacks on its own order
\* only, and at most one, except that on an order of type STOP_LIMIT,
\* TRAILING_STOP_LIMIT or LIMIT_IF_TOUCHED it may invoke
\* trigger_stop_order and then fill_limit_order, each once.
C8_OneCallbackButOnActivation ==
    op.arg # 0 =>
        /\ \A i \in DOMAIN op.calls : op.calls[i].id = op.arg
        /\ \/ Len(op.calls) <= 1
           \/ /\ CallbackNames(op.calls)
                     = << "trigger_stop_order", "fill_limit_order" >>
              /\ order[op.arg].order_type
                     \in { STOP_LIMIT, TRAILING_STOP_LIMIT, LIMIT_IF_TOUCHED }

\* C8 witness: a match_order call has returned after invoking
\* trigger_stop_order and then fill_limit_order.
C8_Witness ==
    /\ op.arg # 0
    /\ op.raised = NoError
    /\ CallbackNames(op.calls) = << "trigger_stop_order", "fill_limit_order" >>

\* The core w with the price of one side replaced.
WithBid(w, v, b) == [w EXCEPT !.bid_raw = v, !.is_bid_initialized = b]

WithAsk(w, v, b) == [w EXCEPT !.ask_raw = v, !.is_ask_initialized = b]

\* C9: for every price p the three predicates are the comparisons of p
\* with the opposite side's raw price, under that side's initialized
\* flag; a BUY result does not vary with the bid, a SELL result does not
\* vary with the ask.
C9_PredicateFormulas ==
    LET w == World
    IN  /\ \A p \in PriceArgs :
              /\ is_limit_matched(w, BUY, p) = (is_ask_initialized /\ ask_raw <= p)
              /\ is_limit_matched(w, SELL, p) = (is_bid_initialized /\ bid_raw >= p)
              /\ is_stop_triggered(w, BUY, p) = (is_ask_initialized /\ ask_raw >= p)
              /\ is_stop_triggered(w, SELL, p) = (is_bid_initialized /\ bid_raw <= p)
              /\ is_touch_triggered(w, BUY, p) = (is_ask_initialized /\ ask_raw <= p)
              /\ is_touch_triggered(w, SELL, p) = (is_bid_initialized /\ bid_raw >= p)
        /\ \A v \in Prices, b \in BOOLEAN :
              LET wb == WithBid(w, v, b)
                  wa == WithAsk(w, v, b)
              IN  \A p \in PriceArgs :
                    /\ is_limit_matched(wb, BUY, p) = is_limit_matched(w, BUY, p)
                    /\ is_stop_triggered(wb, BUY, p) = is_stop_triggered(w, BUY, p)
                    /\ is_touch_triggered(wb, BUY, p) = is_touch_triggered(w, BUY, p)
                    /\ is_limit_matched(wa, SELL, p) = is_limit_matched(w, SELL, p)
                    /\ is_stop_triggered(wa, SELL, p) = is_stop_triggered(w, SELL, p)
                    /\ is_touch_triggered(wa, SELL, p) = is_touch_triggered(w, SELL, p)

\* C9 witness: the ask is unset with raw 0 and the bid is set to 0; at
\* price 0 the BUY predicates are false and the SELL predicates true.
C9_Witness ==
    /\ ~is_ask_initialized /\ ask_raw = 0
    /\ is_bid_initialized /\ bid_raw = 0
    /\ ~is_limit_matched(World, BUY, 0)
    /\ ~is_touch_triggered(World, BUY, 0)
    /\ ~is_stop_triggered(World, BUY, 0)
    /\ is_limit_matched(World, SELL, 0)
    /\ is_stop_triggered(World, SELL, 0)

\* No price has been set since construction or the last reset.
NoPrice == ~is_bid_initialized /\ ~is_ask_initialized /\ ~is_last_initialized

\* C10: reset leaves `orders` and the two side lists empty, the three
\* flags false and the raws 0, so that every predicate is false, the
\* list iterate would copy is empty and match_order invokes no callback
\* on any order; and while neither bid nor ask is set, match_order, and so
\* every pass of iterate, invokes no callback.
C10_ResetBlanksTheCore ==
    /\ LET w == reset(World)
       IN  /\ w.orders = {} /\ w.orders_bid = << >> /\ w.orders_ask = << >>
           /\ ~w.is_bid_initialized /\ ~w.is_ask_initialized
           /\ ~w.is_last_initialized
           /\ w.bid_raw = 0 /\ w.ask_raw = 0 /\ w.last_raw = 0
           /\ \A p \in PriceArgs, side \in { BUY, SELL } :
                 /\ ~is_limit_matched(w, side, p)
                 /\ ~is_stop_triggered(w, side, p)
                 /\ ~is_touch_triggered(w, side, p)
           /\ \A x \in OrderIds, initial \in BOOLEAN :
                 \A w2 \in match_order(w, x, initial) : w2.calls = << >>
    /\ (~is_bid_initialized /\ ~is_ask_initialized) =>
           LET w == World
           IN  \A x \in OrderIds, initial \in BOOLEAN :
                 \A w2 \in match_order(w, x, initial) : w2.calls = << >>

\* C10 witness: after a fill and a reset, an iterate call is running over
\* an empty snapshot with no price set and no callback invoked.
C10_Witness ==
    /\ NoPrice
    /\ orders = {} /\ SideLists = << >>
    /\ pc = "iterate" /\ snapshot = << >> /\ op.calls = << >>
    /\ \E x \in OrderIds : order[x].liquidity_side # NO_LIQUIDITY_SIDE

\* C11: a sweep starts on a snapshot that holds BUY orders, in
\* non-increasing order of order_sort_key, and behind them SELL orders, in
\* non-decreasing order of order_sort_key; the passes of the loop take the
\* snapshot from its first entry to its last.
C11_SweepInPriorityOrder ==
    (pc = "iterate" /\ idx = 1) =>
        \E k \in 0..Len(snapshot) :
            /\ \A i \in 1..k : order[snapshot[i]].side = BUY
            /\ \A i \in (k + 1)..Len(snapshot) : order[snapshot[i]].side = SELL
            /\ InKeyOrder(SubSeq(snapshot, 1, k), TRUE)
            /\ InKeyOrder(SubSeq(snapshot, k + 1, Len(snapshot)), FALSE)

ConditionalLimitTypes == { STOP_LIMIT, TRAILING_STOP_LIMIT, LIMIT_IF_TOUCHED }

\* C12: match_order on a STOP_LIMIT, TRAILING_STOP_LIMIT or
\* LIMIT_IF_TOUCHED order that is triggered invokes fill_limit_order, once
\* and with liquidity_side MAKER, when is_limit_matched(side, price) holds
\* and nothing otherwise; trigger_stop_order is not invoked and the
\* triggered price stays as it was.
C12_TriggeredBehavesAsLimit ==
    LET w == World
    IN  \A x \in OrderIds :
          (/\ order[x].order_type \in ConditionalLimitTypes
           /\ order[x].is_triggered
           /\ order[x].side \in { BUY, SELL })
          => \A initial \in BOOLEAN :
               \A w2 \in match_order(w, x, initial) :
                 /\ w2.order[x].triggered_price = order[x].triggered_price
                 /\ IF is_limit_matched(w, order[x].side, order[x].price)
                       THEN /\ CallbackNames(w2.calls) = << "fill_limit_order" >>
                            /\ w2.calls[1].id = x
                            /\ w2.calls[1].liquidity_side = MAKER
                       ELSE w2.calls = << >>

\* C12 witness: match_order has returned from a triggered conditional
\* limit order after invoking fill_limit_order alone, with MAKER, in a
\* market in which the order's trigger predicate holds as well.
C12_Witness ==
    /\ op.arg # 0
    /\ op.raised = NoError
    /\ order[op.arg].order_type = STOP_LIMIT
    /\ order[op.arg].is_triggered
    /\ CallbackNames(op.calls) = << "fill_limit_order" >>
    /\ op.calls[1].liquidity_side = MAKER
    /\ is_stop_triggered(World, order[op.arg].side, order[op.arg].trigger_price)

\* The trigger predicate of a conditional limit order holds in w.
TriggerHolds(w, o) ==
    IF o.order_type = LIMIT_IF_TOUCHED
        THEN is_touch_triggered(w, o.side, o.trigger_price)
        ELSE is_stop_triggered(w, o.side, o.trigger_price)

\* An untriggered conditional limit order whose trigger predicate holds:
\* match_order on it takes the activation branch.
Activating(w, x) ==
    /\ w.order[x].order_type \in ConditionalLimitTypes
    /\ ~w.order[x].is_triggered
    /\ w.order[x].side \in { BUY, SELL }
    /\ TriggerHolds(w, w.order[x])

\* C13: when an untriggered conditional limit order activates,
\* match_order leaves the triggered price of a STOP_LIMIT or
\* TRAILING_STOP_LIMIT order at trigger_price for both values of initial,
\* and that of a LIMIT_IF_TOUCHED order at trigger_price when initial is
\* false and as it was when initial is true; every pass of iterate calls
\* match_order with initial false.
C13_TriggeredPriceAsymmetry ==
    LET w == World
    IN  /\ \A x \in OrderIds :
              Activating(w, x) =>
                \A initial \in BOOLEAN :
                  \A w2 \in match_order(w, x, initial) :
                    w2.order[x].triggered_price =
                        IF order[x].order_type = LIMIT_IF_TOUCHED /\ initial
                            THEN order[x].triggered_price
                            ELSE << order[x].trigger_price >>
        /\ pc = "iterate" => ~op.initial

\* C13 witness: match_order with initial true has activated a
\* LIMIT_IF_TOUCHED order, invoking trigger_stop_order, and the order has
\* no triggered price.
C13_Witness ==
    /\ op.arg # 0
    /\ op.initial
    /\ order[op.arg].order_type = LIMIT_IF_TOUCHED
    /\ op.calls # << >>
    /\ op.calls[1].cb = "trigger_stop_order"
    /\ order[op.arg].triggered_price = << >>

\* The collections, price slots and flags of w.
CoreOf(w) ==
    << w.bid_raw, w.ask_raw, w.last_raw, w.is_bid_initialized,
       w.is_ask_initialized, w.is_last_initialized, w.orders, w.orders_bid,
       w.orders_ask >>

\* The core and the orders of w, without the record of the call.
StateOf(w) ==
    [w EXCEPT !.raised = NoError, !.calls = << >>, !.cbAdded = {},
              !.reentered = FALSE]

\* The order x of w as the activation branch hands it to
\* trigger_stop_order: triggered price set (but for LIMIT_IF_TOUCHED with
\* initial true), liquidity side given by the rule.
Prepared(w, x, initial) ==
    LET o == w.order[x]
    IN  [w EXCEPT
            !.order[x].triggered_price =
                IF o.order_type = LIMIT_IF_TOUCHED /\ initial
                    THEN @ ELSE << o.trigger_price >>,
            !.order[x].liquidity_side =
                _determine_order_liquidity(initial, o.side, o.price,
                                           o.trigger_price)]

\* C14: in a match_order call that activates a conditional limit order,
\* trigger_stop_order is invoked first, on the order carrying the
\* liquidity side of the rule; if that callback returns and
\* is_limit_matched(side, price) holds in the state it left, the liquidity
\* side becomes TAKER and fill_limit_order is invoked, and otherwise the
\* call ends there.
C14_TriggerThenTakerFill ==
    [][ (op'.arg # 0 /\ Activating(World, op'.arg)) =>
          LET x == op'.arg
              o == order[x]
              trig == Invoke(Prepared(World, x, op'.initial),
                             "trigger_stop_order", x)
          IN  /\ Len(op'.calls) \in { 1, 2 }
              /\ op'.calls[1] =
                    [cb |-> "trigger_stop_order", id |-> x,
                     liquidity_side |->
                         _determine_order_liquidity(op'.initial, o.side,
                             o.price, o.trigger_price)]
              /\ (Len(op'.calls) = 1 /\ op'.raised = NoError) =>
                    /\ ~is_limit_matched(World', o.side, o.price)
                    /\ \E w3 \in trig : StateOf(w3) = StateOf(World')
              /\ Len(op'.calls) = 2 =>
                    /\ op'.calls[2] = [cb |-> "fill_limit_order", id |-> x,
                                       liquidity_side |-> TAKER]
                    /\ \E w3 \in trig :
                          /\ w3.raised = NoError
                          /\ is_limit_matched(w3, o.side, o.price)
                          /\ \E w4 \in Invoke(SetLiquiditySide(w3, x, TAKER),
                                               "fill_limit_order", x) :
                                StateOf(w4) = StateOf(World') ]_vars

\* C14 witness: one match_order call has invoked trigger_stop_order on an
\* order carrying MAKER and then fill_limit_order on it carrying TAKER;
\* the limit was not marketable when the call began.
C14_Witness ==
    /\ op.arg # 0
    /\ Len(op.calls) = 2
    /\ op.calls[1].cb = "trigger_stop_order"
    /\ op.calls[1].liquidity_side = MAKER
    /\ op.calls[2].cb = "fill_limit_order"
    /\ op.calls[2].liquidity_side = TAKER

\* The triggered price of x when the first callback of match_order on x
\* is invoked.
TriggeredPriceAtCallback(w, x, initial) ==
    LET o == w.order[x]
    IN  IF o.order_type \in { STOP_MARKET, TRAILING_STOP_MARKET,
                              MARKET_IF_TOUCHED }
            THEN << o.trigger_price >>
        ELSE IF Activating(w, x) /\ ~(o.order_type = LIMIT_IF_TOUCHED /\ initial)
            THEN << o.trigger_price >>
        ELSE o.triggered_price

\* C15: a callback that fails ends match_order with that failure, and a
\* sweep with it (no pass follows the failure).  What the call did before
\* stays: when the first callback fails, the core is as before the call
\* and the order carries the triggered price and the liquidity side it was
\* handed over with; when fill_limit_order fails after
\* trigger_stop_order returned, the state is the one the trigger callback
\* left, with liquidity side TAKER.
C15_FailureKeepsPartialState ==
    [][ op'.raised = CallbackError =>
              LET x == op'.arg
                  n == Len(op'.calls)
              IN  /\ pc' = "idle" /\ snapshot' = << >>
                  /\ x # 0
                  /\ n \in { 1, 2 }
                  /\ order'[x].liquidity_side = op'.calls[n].liquidity_side
                  /\ n = 1 =>
                        /\ UNCHANGED coreVars
                        /\ order' =
                              [order EXCEPT
                                 ![x].liquidity_side = op'.calls[1].liquidity_side,
                                 ![x].triggered_price =
                                     TriggeredPriceAtCallback(World, x, op'.initial)]
                  /\ n = 2 =>
                        LET core == CoreOf(World')
                        IN  \E w3 \in Invoke(Prepared(World, x, op'.initial),
                                              "trigger_stop_order", x) :
                                /\ w3.raised = NoError
                                /\ CoreOf(w3) = core
                                /\ [w3.order EXCEPT ![x].liquidity_side = TAKER]
                                       = order' ]_vars

\* C15 witness: a call on a STOP_LIMIT order has ended with the failure of
\* fill_limit_order; the order is triggered (the trigger callback's doing),
\* has its triggered price and carries TAKER, it still is in orders_bid
\* ahead of another order, and no sweep is running.
C15_Witness ==
    /\ pc = "idle"
    /\ op.raised = CallbackError
    /\ op.arg # 0
    /\ ~op.initial
    /\ CallbackNames(op.calls) = << "trigger_stop_order", "fill_limit_order" >>
    /\ order[op.arg].is_triggered
    /\ order[op.arg].triggered_price = << order[op.arg].trigger_price >>
    /\ order[op.arg].liquidity_side = TAKER
    /\ Len(orders_bid) = 2
    /\ orders_bid[1] = op.arg
    /\ orders_bid[2] # op.arg
    /\ ~order[orders_bid[2]].is_closed
    /\ order[orders_bid[2]].liquidity_side = NO_LIQUIDITY_SIDE

\* w without its last price.
NoLast(w) == [w EXCEPT !.last_raw = 0, !.is_last_initialized = FALSE]

\* C16: every operation of the core does to the present state what it
\* does to the same state without its last price, the last price apart:
\* the same callbacks are invoked in the same order with the same
\* liquidity sides, the same order fields and collections result, the
\* same failures; and set_last_raw changes nothing but the last price.
\* Two runs that differ in their set_last_raw calls alone therefore agree
\* step by step on all but last_raw and is_last_initialized.
C16_LastDoesNotInfluence ==
    LET w == World
        b == NoLast(w)
    IN  /\ \A x \in OrderIds :
              /\ \A initial \in BOOLEAN :
                    { NoLast(o) : o \in match_order(w, x, initial) }
                        = { NoLast(o) : o \in match_order(b, x, initial) }
              /\ NoLast(add_order(w, x)) = NoLast(add_order(b, x))
              /\ NoLast(delete_order(w, x)) = NoLast(delete_order(b, x))
        /\ \A v \in Prices :
              /\ NoLast(set_bid_raw(w, v)) = NoLast(set_bid_raw(b, v))
              /\ NoLast(set_ask_raw(w, v)) = NoLast(set_ask_raw(b, v))
              /\ NoLast(set_last_raw(w, v)) = b
              /\ NoLast(set_last_raw(b, v)) = b
        /\ NoLast(reset(w)) = NoLast(reset(b))

\* C16 witness: with bid and ask at 0 and the last price set to 1, a
\* match_order call has invoked a callback.
C16_Witness ==
    /\ is_last_initialized /\ last_raw = 1
    /\ is_bid_initialized /\ bid_raw = 0
    /\ is_ask_initialized /\ ask_raw = 0
    /\ op.arg # 0
    /\ op.calls # << >>

\* C17: for all inputs the liquidity rule gives MAKER exactly when initial
\* is false and the trigger price is above the price of a BUY order or
\* below the price of a SELL order, and TAKER in every other case; this is
\* the liquidity side an order carries when trigger_stop_order is invoked
\* on it.
C17_LiquidityRule ==
    /\ \A initial \in BOOLEAN, side \in { BUY, SELL, NO_ORDER_SIDE },
          p \in PriceArgs, t \in PriceArgs :
            LET l == _determine_order_liquidity(initial, side, p, t)
            IN  /\ l \in { MAKER, TAKER }
                /\ l = MAKER <=>
                      /\ ~initial
                      /\ \/ side = BUY /\ t > p
                         \/ side = SELL /\ t < p
    /\ (op.arg # 0 /\ op.calls # << >>
           /\ op.calls[1].cb = "trigger_stop_order") =>
          LET o == order[op.arg]
          IN  op.calls[1].liquidity_side = MAKER <=>
                /\ ~op.initial
                /\ \/ o.side = BUY /\ o.trigger_price > o.price
                   \/ o.side = SELL /\ o.trigger_price < o.price

\* C17 witness: trigger_stop_order has been invoked on a SELL order whose
\* trigger price is below its price, carrying MAKER, and on no fill.
C17_Witness ==
    /\ op.arg # 0
    /\ ~op.initial
    /\ order[op.arg].side = SELL
    /\ order[op.arg].trigger_price < order[op.arg].price
    /\ CallbackNames(op.calls) = << "trigger_stop_order" >>
    /\ op.calls[1].liquidity_side = MAKER
    /\ order[op.arg].liquidity_side = MAKER

MarketTriggerTypes == { STOP_MARKET, TRAILING_STOP_MARKET, MARKET_IF_TOUCHED }

\* The activation condition of a stop-market or market-if-touched order,
\* on the present prices.
MarketActivation(o) ==
    IF o.order_type = MARKET_IF_TOUCHED
        THEN IF o.side = BUY
                THEN is_ask_initialized /\ ask_raw <= o.trigger_price
                ELSE is_bid_initialized /\ bid_raw >= o.trigger_price
        ELSE IF o.side = BUY
                THEN is_ask_initialized /\ ask_raw >= o.trigger_price
                ELSE is_bid_initialized /\ bid_raw <= o.trigger_price

\* C18: match_order on a STOP_MARKET, TRAILING_STOP_MARKET or
\* MARKET_IF_TOUCHED order sets the triggered price to trigger_price and
\* invokes fill_market_order once, and no other callback, when the
\* activation condition holds, and otherwise changes nothing and invokes
\* nothing; a sweep calls match_order on every such order of its snapshot
\* that is not closed.
C18_MarketTriggerOrders ==
    [][ /\ (/\ op'.arg # 0
             /\ order[op'.arg].order_type \in MarketTriggerTypes
             /\ order[op'.arg].side \in { BUY, SELL }) =>
              LET x == op'.arg
              IN  IF MarketActivation(order[x])
                      THEN /\ CallbackNames(op'.calls) = << "fill_market_order" >>
                           /\ op'.calls[1].id = x
                           /\ order'[x].triggered_price
                                  = << order[x].trigger_price >>
                      ELSE /\ op'.calls = << >>
                           /\ op'.raised = NoError
                           /\ UNCHANGED << coreVars, order >>
        /\ (/\ pc = "iterate" /\ idx <= Len(snapshot)
             /\ order[snapshot[idx]].order_type \in MarketTriggerTypes
             /\ ~order[snapshot[idx]].is_closed) =>
              op'.arg = snapshot[idx] ]_vars

\* C18 witness: a sweep has reached a BUY STOP_MARKET order resting in
\* the core with the ask at its trigger price, set its triggered price and
\* invoked fill_market_order alone, with no liquidity side assigned.
C18_Witness ==
    /\ pc = "iterate"
    /\ op.arg # 0
    /\ op.arg \in orders
    /\ order[op.arg].order_type = STOP_MARKET
    /\ order[op.arg].side = BUY
    /\ is_ask_initialized /\ ask_raw = order[op.arg].trigger_price
    /\ CallbackNames(op.calls) = << "fill_market_order" >>
    /\ order[op.arg].triggered_price = << order[op.arg].trigger_price >>
    /\ order[op.arg].liquidity_side = NO_LIQUIDITY_SIDE

\* match_order on o invokes a fill callback first, on the present prices.
Marketable(o) ==
    /\ o.side \in { BUY, SELL }
    /\ \/ /\ o.order_type \in { LIMIT, MARKET_TO_LIMIT }
          /\ is_limit_matched(World, o.side, o.price)
       \/ /\ o.order_type \in ConditionalLimitTypes
          /\ o.is_triggered
          /\ is_limit_matched(World, o.side, o.price)
       \/ /\ o.order_type \in MarketTriggerTypes
          /\ MarketActivation(o)

\* C19: a match_order call in which no callback calls back into the core
\* leaves `orders`, the two side lists, the three price slots and their
\* flags as they were, whatever it invokes; and match_order invokes the
\* fill callback of every marketable order, whatever earlier calls have
\* written to the order.  A sweep changes the core through its
\* match_order calls alone.
C19_MatchingLeavesTheCore ==
    LET w == World
    IN  \A x \in OrderIds, initial \in BOOLEAN :
          LET outs == match_order(w, x, initial)
          IN  /\ \A w2 \in outs :
                    ~w2.reentered => CoreOf(w2) = CoreOf(w)
              /\ Marketable(order[x]) =>
                    \A w2 \in outs :
                        /\ w2.calls # << >>
                        /\ w2.calls[1].cb \in { "fill_limit_order",
                                                 "fill_market_order" }
                        /\ w2.calls[1].id = x

\* C19 witness: a sweep has come to its end after filling a LIMIT order;
\* the order still is in `orders` and in its list, open and marketable,
\* and the side lists are the ones the sweep began with.
C19_Witness ==
    /\ pc = "iterate"
    /\ idx > Len(snapshot)
    /\ Len(snapshot) = 1
    /\ op.arg = snapshot[1]
    /\ CallbackNames(op.calls) = << "fill_limit_order" >>
    /\ SideLists = snapshot
    /\ op.arg \in orders
    /\ ~order[op.arg].is_closed
    /\ order[op.arg].order_type = LIMIT
    /\ order[op.arg].liquidity_side = MAKER
    /\ Marketable(order[op.arg])

\* C20: a sweep calls match_order at most once for each client_order_id:
\* the order a pass has just matched stands nowhere earlier in the
\* snapshot (an earlier entry that is the same order was not closed then,
\* since it is not closed now, and so was matched).
C20_AtMostOncePerId ==
    (pc = "iterate" /\ op.arg # 0) =>
        \A i \in 1..(idx - 2) : snapshot[i] # op.arg

\* The bid and the ask of w, with their flags.
QuotesOf(w) ==
    << w.bid_raw, w.is_bid_initialized, w.ask_raw, w.is_ask_initialized >>

\* The trigger price of o lies on the passive side of its price.
PassiveTrigger(o) ==
    \/ o.side = BUY /\ o.trigger_price > o.price
    \/ o.side = SELL /\ o.trigger_price < o.price

\* C21: match_order with initial false on an untriggered STOP_LIMIT or
\* TRAILING_STOP_LIMIT order with a passive trigger that activates hands
\* the order to trigger_stop_order with MAKER; if that callback returns
\* with bid and ask as they were, the limit is not matched, so a call that
\* ends after the one callback leaves MAKER and a call that goes on to
\* fill_limit_order has had its prices changed by the trigger callback.
\* For a LIMIT_IF_TOUCHED order with a passive trigger whose limit is
\* matched, a call whose callbacks return without calling the core hands
\* the order over with MAKER and then fills it with TAKER.
C21_PassiveStopLimitKeepsMaker ==
    LET w == World
    IN  \A x \in OrderIds :
          LET o == order[x]
              outs == match_order(w, x, FALSE)
              trig == Invoke(Prepared(w, x, FALSE), "trigger_stop_order", x)
          IN  IF o.order_type \in { STOP_LIMIT, TRAILING_STOP_LIMIT }
                THEN (/\ ~o.is_triggered
                      /\ PassiveTrigger(o)
                      /\ \E w2 \in outs : w2.calls # << >>) =>
                       /\ Activating(w, x)
                       /\ \A w3 \in trig :
                            (w3.raised = NoError /\ QuotesOf(w3) = QuotesOf(w))
                            => ~is_limit_matched(w3, o.side, o.price)
                       /\ \A w2 \in outs :
                            /\ w2.calls # << >>
                            /\ w2.calls[1].cb = "trigger_stop_order"
                            /\ w2.calls[1].liquidity_side = MAKER
                            /\ Len(w2.calls) = 1 =>
                                  w2.order[x].liquidity_side = MAKER
                            /\ Len(w2.calls) = 2 =>
                                  \E w3 \in trig :
                                    /\ w3.raised = NoError
                                    /\ QuotesOf(w3) # QuotesOf(w)
                                    /\ w2 \in Invoke(
                                          SetLiquiditySide(w3, x, TAKER),
                                          "fill_limit_order", x)
                ELSE (/\ Activating(w, x)
                      /\ PassiveTrigger(o)
                      /\ is_limit_matched(w, o.side, o.price)) =>
                         /\ \E w2 \in outs :
                               w2.raised = NoError /\ ~w2.reentered
                         /\ \A w2 \in outs :
                               (w2.raised = NoError /\ ~w2.reentered) =>
                                 /\ Len(w2.calls) = 2
                                 /\ w2.calls[1].liquidity_side = MAKER
                                 /\ w2.calls[2].liquidity_side = TAKER
                                 /\ w2.order[x].liquidity_side = TAKER

\* C21 witness: match_order with initial false has activated a BUY
\* STOP_LIMIT order whose trigger price is above its price; the trigger
\* callback set is_triggered and nothing else, no fill followed, and the
\* order carries MAKER.
C21_Witness ==
    /\ op.arg # 0
    /\ ~op.initial
    /\ op.raised = NoError
    /\ order[op.arg].order_type = STOP_LIMIT
    /\ order[op.arg].side = BUY
    /\ order[op.arg].trigger_price > order[op.arg].price
    /\ CallbackNames(op.calls) = << "trigger_stop_order" >>
    /\ op.calls[1].liquidity_side = MAKER
    /\ order[op.arg].is_triggered
    /\ order[op.arg].liquidity_side = MAKER
    /\ is_ask_initialized /\ ask_raw >= order[op.arg].trigger_price

\* The price the predicates compare with for an order of the given side
\* (the ask for BUY, the bid for SELL) and its flag.
OppositeInitialized(w, side) ==
    IF side = BUY THEN w.is_ask_initialized ELSE w.is_bid_initialized

OppositeRaw(w, side) == IF side = BUY THEN w.ask_raw ELSE w.bid_raw

\* C22: in every reachable state, for side BUY or SELL and every price p,
\* is_touch_triggered(side, p) = is_limit_matched(side, p);
\* is_stop_triggered(side, p) and is_touch_triggered(side, p) both hold
\* exactly when the opposite-side price is initialized and equals p, and
\* both fail exactly when it is not initialized.
C22_TouchMirrorsStop ==
    LET w == World
    IN  \A side \in { BUY, SELL }, p \in PriceArgs :
          LET stop == is_stop_triggered(w, side, p)
              touch == is_touch_triggered(w, side, p)
          IN  /\ touch = is_limit_matched(w, side, p)
              /\ (stop /\ touch) =
                    (OppositeInitialized(w, side) /\ OppositeRaw(w, side) = p)
              /\ (~stop /\ ~touch) = ~OppositeInitialized(w, side)

\* C22 witness: the ask is set to 1 and the bid is not set; a BUY stop and
\* a BUY touch at 1 both hold, at 0 only the stop holds, and for SELL both
\* fail at every price.
C22_Witness ==
    /\ is_ask_initialized /\ ask_raw = 1
    /\ ~is_bid_initialized
    /\ is_stop_triggered(World, BUY, 1) /\ is_touch_triggered(World, BUY, 1)
    /\ is_stop_triggered(World, BUY, 0) /\ ~is_touch_triggered(World, BUY, 0)
    /\ \A p \in PriceArgs :
          ~is_stop_triggered(World, SELL, p) /\ ~is_touch_triggered(World, SELL, p)

\* The callback record of fill_limit_order on order x with MAKER.
MakerFill(x) ==
    [cb |-> "fill_limit_order", id |-> x, liquidity_side |-> MAKER]

\* C23: every iterate call returns.  The loop runs over the copy of the
\* two side lists taken at entry: each pass moves one entry on and makes
\* at most one match_order call, on that entry, or ends the sweep with a
\* failure, and the copy keeps its length whatever callbacks add, so the
\* calls of a sweep number at most the entries at entry.  When the loop
\* comes to a LIMIT or MARKET_TO_LIMIT entry that is not closed and whose
\* is_limit_matched(side, price) holds, that pass invokes
\* fill_limit_order on it with liquidity side MAKER.
C23_SweepTerminatesAndFills ==
    /\ [](pc = "iterate" => idx \in 1..(Len(snapshot) + 1))
    /\ [][ /\ (pc = "idle" /\ pc' = "iterate") =>
                /\ snapshot' = orders_bid \o orders_ask
                /\ idx' = 1
                /\ op'.arg = 0
           /\ pc = "iterate" =>
                \/ /\ idx <= Len(snapshot)
                   /\ pc' = "iterate"
                   /\ snapshot' = snapshot
                   /\ idx' = idx + 1
                   /\ op'.arg \in { 0, snapshot[idx] }
                   /\ op'.raised = NoError
                \/ /\ idx <= Len(snapshot)
                   /\ pc' = "idle"
                   /\ op'.arg = snapshot[idx]
                   /\ op'.raised # NoError
                \/ /\ idx = Len(snapshot) + 1
                   /\ pc' = "idle"
                   /\ op'.arg = 0
           /\ (/\ pc = "iterate"
                /\ idx <= Len(snapshot)
                /\ order[snapshot[idx]].order_type \in { LIMIT, MARKET_TO_LIMIT }
                /\ ~order[snapshot[idx]].is_closed
                /\ is_limit_matched(World, order[snapshot[idx]].side,
                                    order[snapshot[idx]].price)) =>
                /\ op'.arg = snapshot[idx]
                /\ op'.calls = << MakerFill(snapshot[idx]) >> ]_vars
    /\ (pc = "iterate") ~> (pc = "idle")

\* C23 witness: a sweep has made its last pass, which invoked
\* fill_limit_order with MAKER on the entry, a LIMIT order, and the callback
\* has added an order, so the side lists hold more entries than the copy.
C23_Witness ==
    /\ pc = "iterate"
    /\ Len(snapshot) >= 1
    /\ idx = Len(snapshot) + 1
    /\ cbAdded # {}
    /\ Len(orders_bid \o orders_ask) > Len(snapshot)
    /\ order[snapshot[idx - 1]].order_type = LIMIT
    /\ op.arg = snapshot[idx - 1]
    /\ op.raised = NoError
    /\ op.calls = << MakerFill(snapshot[idx - 1]) >>

====
